---- MODULE Spec2Model ----
(***************************************************************************)
(* Truth-table calculator (src/src/logic.js).                              *)
(*                                                                         *)
(* A JavaScript string is a sequence of one-character strings.  JavaScript *)
(* indices are 0-based; the operators below keep the source's 0-based      *)
(* indices where the source computes with them (replaceParanthesis,        *)
(* cartesianProduct) and translate on access.  JavaScript values that can  *)
(* end up in a table cell are written as the strings "true", "false",      *)
(* "0", "1" and "undefined".                                               *)
(***************************************************************************)
EXTENDS Integers, Sequences, FiniteSets, TLC

VARIABLES
    pc,                 \* position of the onInputChange handler
    value,              \* argument of the running / last onInputChange call
    calc,               \* the locals of the running / last calculateTruthTable:
                        \*   logics            logic.split(',')
                        \*   codes             logics.map(parse)
                        \*   premiseOrder      the de-duplicated premises
                        \*   premiseCartesian  the rows, grown by push(eval(..))
                        \*   i                 the row loop's index (0-based)
                        \*   k                 the index inside rowCodes.forEach
                        \*   evalLog           history: every string handed to eval
                        \*   err               the exception thrown, if any
    truthTable,         \* onInputChange: the table calculateTruthTable returned
    currentTruthTable,  \* line 9
    cacheWrites,        \* history: assignments to currentTruthTable by this call
    lastOk,             \* history: argument of the latest call that succeeded
    errorDisplay,       \* errorElem.style.display
    errorHtml,          \* errorElem.innerHTML (value and err.rowCode parts)
    thead,              \* tableElem thead cells
    tbody,              \* tableElem tbody cells
    cp,                 \* a run of cartesianProduct, statement by statement
    rp                  \* a run of replaceParanthesis, iteration by iteration

vars == <<pc, value, calc, truthTable, currentTruthTable, cacheWrites, lastOk,
          errorDisplay, errorHtml, thead, tbody, cp, rp>>

(***************************************************************************)
(* Characters and elementary string functions                              *)
(***************************************************************************)
LowerCase == <<"a","b","c","d","e","f","g","h","i","j","k","l","m",
               "n","o","p","q","r","s","t","u","v","w","x","y","z">>
UpperCase == <<"A","B","C","D","E","F","G","H","I","J","K","L","M",
               "N","O","P","Q","R","S","T","U","V","W","X","Y","Z">>
Range(f) == { f[x] : x \in DOMAIN f }
Digits == {"0","1","2","3","4","5","6","7","8","9"}

\* \w of a JavaScript regular expression
WordChars == Range(LowerCase) \cup Range(UpperCase) \cup Digits \cup {"_"}

\* canonical form of a character under the i flag
Fold(c) ==
    IF c \in Range(UpperCase)
    THEN LowerCase[CHOOSE n \in 1..26 : UpperCase[n] = c]
    ELSE c

FoldAll(s) == [n \in 1..Len(s) |-> Fold(s[n])]

Min(a, b) == IF a < b THEN a ELSE b

\* String.prototype.substr(start, length), 0 <= start
substr(s, start, length) == SubSeq(s, start + 1, Min(start + length, Len(s)))
\* String.prototype.substr(start)
substrFrom(s, start) == SubSeq(s, start + 1, Len(s))

\* does w occur in s at the 1-based position pos
StartsWithAt(s, pos, w) ==
    /\ pos >= 1
    /\ pos + Len(w) - 1 <= Len(s)
    /\ SubSeq(s, pos, pos + Len(w) - 1) = w

RECURSIVE trimStart(_)
trimStart(s) == IF s # <<>> /\ Head(s) = " " THEN trimStart(Tail(s)) ELSE s
RECURSIVE trimEnd(_)
trimEnd(s) ==
    IF s # <<>> /\ s[Len(s)] = " " THEN trimEnd(SubSeq(s, 1, Len(s) - 1)) ELSE s
\* String.prototype.trim (the only white space of the alphabet is the blank)
trim(s) == trimEnd(trimStart(s))

\* String.prototype.split(sep) for a one-character separator
RECURSIVE split(_, _)
split(s, sep) ==
    IF \A n \in 1..Len(s) : s[n] # sep THEN <<s>>
    ELSE LET n == CHOOSE m \in 1..Len(s) :
                      s[m] = sep /\ \A l \in 1..(m - 1) : s[l] # sep
         IN <<SubSeq(s, 1, n - 1)>> \o split(SubSeq(s, n + 1, Len(s)), sep)

\* Array.prototype.join(sep)
RECURSIVE join(_, _)
join(ss, sep) ==
    IF ss = <<>> THEN <<>>
    ELSE IF Len(ss) = 1 THEN ss[1]
    ELSE ss[1] \o sep \o join(Tail(ss), sep)

\* [...new Set(array)]: first occurrences, in order
RECURSIVE dedupe(_)
dedupe(ss) ==
    IF ss = <<>> THEN <<>>
    ELSE LET init == dedupe(SubSeq(ss, 1, Len(ss) - 1))
             last == ss[Len(ss)]
         IN IF last \in Range(init) THEN init ELSE Append(init, last)

(***************************************************************************)
(* regularExpressions (lines 16-27) and String.prototype.replaceAll        *)
(***************************************************************************)
Dashes(n) == [k \in 1..n |-> "-"]

(* The expressions of the shape (?<=B)(a1|a2|..)+(?=A).  behind/atStart    *)
(* are the look-behind (a character of the set, or ^), alts the            *)
(* alternatives, plus whether the group is repeated, ahead/atEnd the        *)
(* look-ahead (a character of the set, or $; anyAhead: there is none).     *)
(* n bounds the number of dashes of <-+>.  The alternative of 'not' made   *)
(* of the two characters U+00C2 U+00AC is left out: no input holds them.   *)
regularExpressions(name, n) ==
    CASE name = "true" ->
           [behind |-> {" ", "(", ")"}, atStart |-> TRUE,
            alts |-> {<<"T">>, <<"t","r","u","e">>}, plus |-> FALSE,
            ahead |-> {" ", "(", ")"}, atEnd |-> TRUE, anyAhead |-> FALSE]
      [] name = "false" ->
           [behind |-> {" ", "(", ")"}, atStart |-> TRUE,
            alts |-> {<<"F">>, <<"f","a","l","s","e">>}, plus |-> FALSE,
            ahead |-> {" ", "(", ")"}, atEnd |-> TRUE, anyAhead |-> FALSE]
      [] name = "and" ->
           [behind |-> {" "}, atStart |-> TRUE,
            alts |-> {<<"a","n","d">>, <<"&">>, <<"/","\\">>, <<"^">>},
            plus |-> TRUE,
            ahead |-> {" "}, atEnd |-> TRUE, anyAhead |-> FALSE]
      [] name = "or" ->
           [behind |-> {" "}, atStart |-> TRUE,
            alts |-> {<<"o","r">>, <<"|">>, <<"\\","/">>}, plus |-> TRUE,
            ahead |-> {" "}, atEnd |-> TRUE, anyAhead |-> FALSE]
      [] name = "not" ->
           [behind |-> {" ", "(", ")"}, atStart |-> TRUE,
            alts |-> {<<"n","o","t"," ">>, <<"n","o","t">>, <<"!">>},
            plus |-> TRUE,
            ahead |-> {}, atEnd |-> TRUE, anyAhead |-> TRUE]
      [] name = "equals" ->
           [behind |-> {" "}, atStart |-> TRUE,
            alts |-> {<<"=">>} \cup
                     { <<"<">> \o Dashes(k) \o <<">">> : k \in 1..n },
            plus |-> TRUE,
            ahead |-> {" "}, atEnd |-> TRUE, anyAhead |-> FALSE]
      [] name = "xor" ->
           [behind |-> {" "}, atStart |-> TRUE,
            alts |-> {<<"(","+",")">>, <<"x","o","r">>}, plus |-> TRUE,
            ahead |-> {" "}, atEnd |-> TRUE, anyAhead |-> FALSE]

\* last positions of one alternative matched at pos
OneEnds(s, pos, alts) ==
    { pos + Len(a) - 1 : a \in { b \in alts : StartsWithAt(s, pos, b) } }

\* last positions of one or more alternatives matched from pos
RECURSIVE RepEnds(_, _, _)
RepEnds(s, pos, alts) ==
    LET one == OneEnds(s, pos, alts)
    IN one \cup UNION { RepEnds(s, e + 1, alts) : e \in one }

(* Last position of the match of the expression at pos, 0 when there is    *)
(* none.  The alternatives of each expression start with different         *)
(* characters but "not " / "not", of which the longer is tried first, so   *)
(* the greedy match is the longest one that the look-ahead accepts.        *)
MatchEnd(s, pos, name) ==
    LET re == regularExpressions(name, Len(s))
        lookBehind == IF pos = 1 THEN re.atStart ELSE s[pos - 1] \in re.behind
        lookAhead(e) == \/ re.anyAhead
                        \/ IF e = Len(s) THEN re.atEnd ELSE s[e + 1] \in re.ahead
        ends == { e \in (IF re.plus THEN RepEnds(s, pos, re.alts)
                                    ELSE OneEnds(s, pos, re.alts)) : lookAhead(e) }
    IN IF lookBehind /\ ends # {}
       THEN CHOOSE e \in ends : \A f \in ends : f <= e
       ELSE 0

\* s.replaceAll(regularExpressions[name], rep), scanning from pos
RECURSIVE replaceAllFrom(_, _, _, _)
replaceAllFrom(s, pos, name, rep) ==
    IF pos > Len(s) THEN <<>>
    ELSE LET e == MatchEnd(s, pos, name)
         IN IF e = 0
            THEN <<s[pos]>> \o replaceAllFrom(s, pos + 1, name, rep)
            ELSE rep \o replaceAllFrom(s, e + 1, name, rep)

replaceAll(s, name, rep) == replaceAllFrom(s, 1, name, rep)

(* (then|(?<!<)-+>): the length of the implication marker at pos, 0 when   *)
(* there is none.  -+ takes the whole run of dashes: a shorter run is      *)
(* followed by a dash, never by >.                                         *)
RECURSIVE DashRun(_, _)
DashRun(s, pos) ==
    IF pos <= Len(s) /\ s[pos] = "-" THEN 1 + DashRun(s, pos + 1) ELSE 0

ThenMarkerLen(s, pos) ==
    IF StartsWithAt(s, pos, <<"t","h","e","n">>) THEN 4
    ELSE IF pos <= Len(s) /\ s[pos] = "-" /\ (pos = 1 \/ s[pos - 1] # "<")
    THEN LET d == DashRun(s, pos)
         IN IF pos + d <= Len(s) /\ s[pos + d] = ">" THEN d + 1 ELSE 0
    ELSE 0

(* regularExpressions.thenWrap, /(.[^-]+?)(?:then|(?<!<)-+>)(.+)/g: the    *)
(* leftmost start st and, for it, the shortest group 1 (one character,     *)
(* then one or more that are no dash) followed at m by a marker that       *)
(* leaves at least one character for group 2.                              *)
thenWrapMatches(s) ==
    { x \in (1..Len(s)) \X (1..Len(s)) :
        /\ x[2] - x[1] >= 2
        /\ \A n \in (x[1] + 1)..(x[2] - 1) : s[n] # "-"
        /\ ThenMarkerLen(s, x[2]) > 0
        /\ x[2] + ThenMarkerLen(s, x[2]) <= Len(s) }

(* logic.replaceAll(thenWrap, (whole, p1, p2) => '!(' + p1.trim() + ') ||  *)
(* (' + p2.trim() + ')'): group 2 runs to the end of the string, so there  *)
(* is at most one match, and the replacement is not scanned again.         *)
replaceThenWrap(s) ==
    LET ms == thenWrapMatches(s)
    IN IF ms = {} THEN s
       ELSE LET x == CHOOSE y \in ms :
                        \A z \in ms : y[1] < z[1] \/ (y[1] = z[1] /\ y[2] <= z[2])
                p1 == SubSeq(s, x[1], x[2] - 1)
                p2 == SubSeq(s, x[2] + ThenMarkerLen(s, x[2]), Len(s))
            IN SubSeq(s, 1, x[1] - 1)
               \o <<"!", "(">> \o trim(p1) \o <<")", " ", "|", "|", " ", "(">>
               \o trim(p2) \o <<")">>

\* s.replaceAll(regularExpressions.then, rep) of prettyPrint
RECURSIVE replaceThenFrom(_, _, _)
replaceThenFrom(s, pos, rep) ==
    IF pos > Len(s) THEN <<>>
    ELSE LET l == ThenMarkerLen(s, pos)
         IN IF l = 0
            THEN <<s[pos]>> \o replaceThenFrom(s, pos + 1, rep)
            ELSE rep \o replaceThenFrom(s, pos + l, rep)

\* s.replaceAll(c, rep) for a one-character string c
RECURSIVE replaceChar(_, _, _)
replaceChar(s, c, rep) ==
    IF s = <<>> THEN <<>>
    ELSE (IF Head(s) = c THEN rep ELSE <<Head(s)>>) \o replaceChar(Tail(s), c, rep)

(***************************************************************************)
(* replaceParanthesis (lines 162-197) and parse (lines 123-156)            *)
(***************************************************************************)
\* the token translation of parse, lines 142-155
translate(s) ==
    LET a == replaceAll(s, "not", <<"!">>)
        b == replaceAll(a, "and", <<"&", "&">>)
        c == replaceAll(b, "or", <<"|", "|">>)
        d == replaceAll(c, "equals", <<"=", "=">>)
        e == replaceAll(d, "xor", <<"^">>)
        f == replaceAll(e, "true", <<"1">>)
    IN replaceAll(f, "false", <<"0">>)

\* callbacks other than parse that replaceParanthesis is run with
double(s) == s \o s

RECURSIVE parse(_)
RECURSIVE rpRun(_)

(* callback(string) of line 189; the callback is named, parse calls        *)
(* replaceParanthesis with itself.                                         *)
callback(cb, s) ==
    CASE cb = "parse"    -> parse(s)
      [] cb = "identity" -> s
      [] cb = "empty"    -> <<>>
      [] cb = "double"   -> double(s)

\* line 191: i = startIndex + replacementString.length+3
recalibrate(startIndex, replacementLength) == startIndex + replacementLength + 3

\* lines 164-166: the state before the first iteration
rpStart(string, cb) ==
    [input |-> string, string |-> string, cb |-> cb, i |-> 0, control |-> 0,
     startIndex |-> -1, minControl |-> 0, calls |-> <<>>]

rpDone(st) == ~(st.i < Len(st.string))

(* One iteration of the for loop of lines 169-194, with its i++.           *)
(* input (the argument), minControl (the least depth seen) and calls (the  *)
(* interiors handed to the callback) are history.                          *)
rpStep(st) ==
    LET ch == st.string[st.i + 1]
    IN IF ch = "("
       THEN [st EXCEPT !.control = st.control + 1,
                       !.startIndex = IF st.control + 1 = 1 THEN st.i ELSE @,
                       !.i = st.i + 1]
       ELSE IF ch = ")"
       THEN IF st.control - 1 = 0
            THEN LET interior == substr(st.string, st.startIndex + 1,
                                        st.i - st.startIndex - 1)
                     replacementString == callback(st.cb, interior)
                 IN [st EXCEPT
                       !.control = 0,
                       !.string = substr(st.string, 0, st.startIndex + 1)
                                  \o replacementString
                                  \o substrFrom(st.string, st.i),
                       !.i = recalibrate(st.startIndex, Len(replacementString)) + 1,
                       !.calls = Append(@, interior)]
            ELSE [st EXCEPT !.control = st.control - 1,
                            !.minControl = Min(@, st.control - 1),
                            !.i = st.i + 1]
       ELSE [st EXCEPT !.i = st.i + 1]

rpRun(st) == IF rpDone(st) THEN st ELSE rpRun(rpStep(st))

replaceParanthesis(string, cb) == rpRun(rpStart(string, cb)).string

parse(logic) == translate(replaceThenWrap(replaceParanthesis(logic, "parse")))

\* prettyPrint, lines 110-120
prettyPrint(string) ==
    LET a == replaceAll(string, "and", <<"&","a","n","d",";">>)
        b == replaceAll(a, "or", <<"&","o","r",";">>)
        c == replaceAll(b, "not", <<"&","s","i","m",";">>)
        d == replaceThenFrom(c, 1, <<"&","r","a","r","r",";">>)
        e == replaceAll(d, "xor", <<"&","o","p","l","u","s",";">>)
        f == replaceAll(e, "equals", <<"&","e","q","u","i","v",";">>)
        g == replaceChar(f, "(", <<"&","l","p","a","r",";">>)
    IN replaceChar(g, ")", <<"&","r","p","a","r",";">>)

(***************************************************************************)
(* eval (line 55) of a substituted code literal.                           *)
(*                                                                         *)
(* The fragment of JavaScript that the code literals of the inputs fall    *)
(* in: the literals true false 0 1, identifiers, ! == ^ && || and          *)
(* parentheses, with JavaScript's precedence (! over == over ^ over &&     *)
(* over ||, each binary operator left-associative), short-circuit && and   *)
(* ||, and the empty program.  An outcome is [name, v]: name "ok" with     *)
(* the value v, or the name of the exception.  "Unmodelled" marks a text   *)
(* outside the fragment; EvalModelled states that no run meets one.        *)
(***************************************************************************)
RECURSIVE wordEnd(_, _)
wordEnd(s, pos) ==
    IF pos + 1 <= Len(s) /\ s[pos + 1] \in WordChars THEN wordEnd(s, pos + 1) ELSE pos

(* The token of a run of word characters.  Every identifier free of the    *)
(* digits 0 and 1 is a premise and is substituted before eval; one that    *)
(* holds such a digit is left in the text and names no variable in scope.  *)
wordToken(w) ==
    CASE w = <<"t","r","u","e">>     -> "true"
      [] w = <<"f","a","l","s","e">> -> "false"
      [] w = <<"0">>                 -> "0"
      [] w = <<"1">>                 -> "1"
      [] OTHER -> IF /\ w[1] \notin Digits
                     /\ \E n \in 1..Len(w) : w[n] \in {"0", "1"}
                  THEN "id" ELSE "?"

(* "->" is the token - followed by the token >: no expression continues    *)
(* with > after a unary or binary -, whatever surrounds them.              *)
RECURSIVE tokenize(_, _)
tokenize(s, pos) ==
    IF pos > Len(s) THEN <<>>
    ELSE LET c == s[pos]
             next(n) == IF pos + n <= Len(s) THEN s[pos + n] ELSE ""
             prev == IF pos > 1 THEN s[pos - 1] ELSE ""
         IN CASE c = " " -> tokenize(s, pos + 1)
              [] c \in WordChars ->
                   LET e == wordEnd(s, pos)
                   IN <<wordToken(SubSeq(s, pos, e))>> \o tokenize(s, e + 1)
              [] c \in {"(", ")"} -> <<c>> \o tokenize(s, pos + 1)
              [] c = "!" /\ next(1) # "=" -> <<"!">> \o tokenize(s, pos + 1)
              [] c = "^" /\ next(1) # "=" -> <<"^">> \o tokenize(s, pos + 1)
              [] c = "&" /\ next(1) = "&" /\ next(2) \notin {"&", "="} ->
                   <<"&&">> \o tokenize(s, pos + 2)
              [] c = "|" /\ next(1) = "|" /\ next(2) \notin {"|", "="} ->
                   <<"||">> \o tokenize(s, pos + 2)
              [] c = "=" /\ next(1) = "=" /\ next(2) # "=" /\ prev \notin {"=", "!", "<", ">"} ->
                   <<"==">> \o tokenize(s, pos + 2)
              [] c = "-" /\ next(1) = ">" /\ prev # "-" ->
                   <<"->">> \o tokenize(s, pos + 2)
              [] OTHER -> <<"?">> \o tokenize(s, pos + 1)

Truthy(v) == v \in {"true", "1"}
RefErr == "ReferenceError"

\* the operators on the values true, false, 0, 1; an operand that threw throws
notV(a) == IF a = RefErr THEN RefErr ELSE IF Truthy(a) THEN "false" ELSE "true"
eqV(a, b) ==
    IF a = RefErr \/ b = RefErr THEN RefErr
    ELSE IF Truthy(a) = Truthy(b) THEN "true" ELSE "false"
xorV(a, b) ==
    IF a = RefErr \/ b = RefErr THEN RefErr
    ELSE IF Truthy(a) # Truthy(b) THEN "1" ELSE "0"
andV(a, b) == IF a = RefErr THEN RefErr ELSE IF Truthy(a) THEN b ELSE a
orV(a, b) == IF a = RefErr THEN RefErr ELSE IF Truthy(a) THEN a ELSE b

\* a parse result: ok, the value, the position of the next token
Parsed(v, pos) == [ok |-> TRUE, v |-> v, pos |-> pos]
NoParse == [ok |-> FALSE, v |-> "", pos |-> 0]
AtTok(t, pos, tok) == pos <= Len(t) /\ t[pos] = tok

\* the binary operators, loosest first; past them come the unary expressions
BinaryOps == <<"||", "&&", "^", "==">>
UnaryLevel == Len(BinaryOps) + 1

applyOp(op, a, b) ==
    CASE op = "||" -> orV(a, b)
      [] op = "&&" -> andV(a, b)
      [] op = "^"  -> xorV(a, b)
      [] op = "==" -> eqV(a, b)

(* parseAt(t, pos, level): the expression of the level at pos.  restAt     *)
(* extends the left operand l of a level by the operators of that level,   *)
(* left to right.                                                          *)
RECURSIVE parseAt(_, _, _), restAt(_, _, _)

parseAt(t, pos, level) ==
    IF level < UnaryLevel THEN restAt(t, parseAt(t, pos, level + 1), level)
    ELSE IF pos > Len(t) THEN NoParse
    ELSE CASE t[pos] = "!" ->
                LET r == parseAt(t, pos + 1, UnaryLevel)
                IN IF r.ok THEN Parsed(notV(r.v), r.pos) ELSE NoParse
           [] t[pos] = "(" ->
                LET r == parseAt(t, pos + 1, 1)
                IN IF r.ok /\ AtTok(t, r.pos, ")") THEN Parsed(r.v, r.pos + 1)
                   ELSE NoParse
           [] t[pos] \in {"true", "false", "0", "1"} -> Parsed(t[pos], pos + 1)
           [] t[pos] = "id" -> Parsed(RefErr, pos + 1)
           [] OTHER -> NoParse

restAt(t, l, level) ==
    IF l.ok /\ AtTok(t, l.pos, BinaryOps[level])
    THEN LET r == parseAt(t, l.pos + 1, level + 1)
         IN IF r.ok
            THEN restAt(t, Parsed(applyOp(BinaryOps[level], l.v, r.v), r.pos), level)
            ELSE NoParse
    ELSE l

Outcome(name, v) == [name |-> name, v |-> v]

\* a ( right after an operand is a call
HasCall(t) ==
    \E n \in 1..(Len(t) - 1) :
        t[n] \in {")", "true", "false", "0", "1", "id"} /\ t[n + 1] = "("

eval(rowCode) ==
    LET t == tokenize(rowCode, 1)
        r == parseAt(t, 1, 1)
    IN IF "?" \in Range(t) THEN Outcome("Unmodelled", "")
       ELSE IF "->" \in Range(t) THEN Outcome("SyntaxError", "")
       ELSE IF HasCall(t) THEN Outcome("Unmodelled", "")
       ELSE IF t = <<>> THEN Outcome("ok", "undefined")
       ELSE IF ~(r.ok /\ r.pos = Len(t) + 1) THEN Outcome("SyntaxError", "")
       ELSE IF r.v = RefErr THEN Outcome("ReferenceError", "")
       ELSE Outcome("ok", r.v)

(***************************************************************************)
(* cartesianProduct (lines 206-243)                                        *)
(***************************************************************************)
RECURSIVE lengthProduct(_)
lengthProduct(ms) == IF ms = <<>> THEN 1 ELSE Len(Head(ms)) * lengthProduct(Tail(ms))

\* lines 213-219: the product of the lengths of matrices.slice(i+1)
innerFreq(matrices, i) == lengthProduct(SubSeq(matrices, i + 2, Len(matrices)))
\* lines 214-224: the product of the lengths of matrices.slice(0, i)
outerFreq(matrices, i) == lengthProduct(SubSeq(matrices, 1, i))

\* line 232 without the rows of the earlier outer repetitions
rowIndexWithoutOuter(j, k, h, inner, length) == (j * inner) + k

\* line 232
rowIndex(j, k, h, inner, length) == (j * inner) + k + (h * inner * length)

\* lines 208-211: the state before the first iteration
cpStart(params) ==
    [matrices |-> params, i |-> 0, h |-> 0, j |-> 0, k |-> 0, cartesian |-> <<>>]

cpDone(st) == ~(st.i < Len(st.matrices))

(* One execution of the body of the innermost loop (lines 232-235) and the *)
(* loop steps that follow it.  Every matrix is [true, false], so no loop   *)
(* is empty; row x is created when it is one past the last row.            *)
cpStep(st) ==
    LET m == st.matrices[st.i + 1]
        inner == innerFreq(st.matrices, st.i)
        outer == outerFreq(st.matrices, st.i)
        x == rowIndex(st.j, st.k, st.h, inner, Len(m))
        cell == m[st.j + 1]
        cartesian == IF x + 1 > Len(st.cartesian)
                     THEN Append(st.cartesian, <<cell>>)
                     ELSE [st.cartesian EXCEPT ![x + 1] = Append(@, cell)]
        k1 == st.k + 1
        j1 == IF k1 < inner THEN st.j ELSE st.j + 1
        h1 == IF k1 < inner \/ j1 < Len(m) THEN st.h ELSE st.h + 1
        i1 == IF k1 < inner \/ j1 < Len(m) \/ h1 < outer THEN st.i ELSE st.i + 1
    IN [st EXCEPT !.cartesian = cartesian,
                  !.k = IF k1 < inner THEN k1 ELSE 0,
                  !.j = IF k1 < inner THEN st.j ELSE IF j1 < Len(m) THEN j1 ELSE 0,
                  !.h = IF k1 < inner \/ j1 < Len(m) THEN st.h
                        ELSE IF h1 < outer THEN h1 ELSE 0,
                  !.i = i1]

RECURSIVE cpRun(_)
cpRun(st) == IF cpDone(st) THEN st ELSE cpRun(cpStep(st))

cartesianProduct(params) == cpRun(cpStart(params)).cartesian

(***************************************************************************)
(* calculateTruthTable (lines 29-65)                                       *)
(***************************************************************************)
\* [^\W\s01]
PremiseChars == WordChars \ {"0", "1"}

RECURSIVE premiseEnd(_, _)
premiseEnd(s, pos) ==
    IF pos + 1 <= Len(s) /\ s[pos + 1] \in PremiseChars
    THEN premiseEnd(s, pos + 1) ELSE pos

\* s.match(regularExpressions.premises); null is the empty list under new Set
RECURSIVE matchPremises(_, _)
matchPremises(s, pos) ==
    IF pos > Len(s) THEN <<>>
    ELSE IF s[pos] \in PremiseChars
    THEN LET e == premiseEnd(s, pos)
         IN <<SubSeq(s, pos, e)>> \o matchPremises(s, e + 1)
    ELSE matchPremises(s, pos + 1)

\* line 36
premisesOf(cs) == dedupe(matchPremises(join(cs, <<",">>), 1))

(* new RegExp(`\\b(${premise})\\b`, 'gi') matched at pos: the premise      *)
(* under the i flag, between two word boundaries (a premise is made of     *)
(* word characters).                                                       *)
premiseAt(s, pos, premise) ==
    /\ pos + Len(premise) - 1 <= Len(s)
    /\ FoldAll(SubSeq(s, pos, pos + Len(premise) - 1)) = FoldAll(premise)
    /\ (pos = 1 \/ s[pos - 1] \notin WordChars)
    /\ (pos + Len(premise) > Len(s) \/ s[pos + Len(premise)] \notin WordChars)

\* String(true), String(false): the replacement of line 48
valueText(v) == IF v = "true" THEN <<"t","r","u","e">> ELSE <<"f","a","l","s","e">>

\* rowCode.replaceAll(new RegExp(..), premiseCartesian[i][j])
RECURSIVE substitute(_, _, _, _)
substitute(s, pos, premise, v) ==
    IF pos > Len(s) THEN <<>>
    ELSE IF premiseAt(s, pos, premise)
    THEN valueText(v) \o substitute(s, pos + Len(premise), premise, v)
    ELSE <<s[pos]>> \o substitute(s, pos + 1, premise, v)

\* lines 47-49: the passes j, j+1, .. over the code literals
RECURSIVE substituteFrom(_, _, _, _)
substituteFrom(rowCodes, premises, row, j) ==
    IF j > Len(premises) THEN rowCodes
    ELSE substituteFrom(
             [n \in 1..Len(rowCodes) |->
                 substitute(rowCodes[n], 1, premises[j], row[j])],
             premises, row, j + 1)

\* lines 44-49
rowCodesFor(cs, premises, row) == substituteFrom(cs, premises, row, 1)

NoError == [thrown |-> FALSE, rowCode |-> <<>>, name |-> ""]

\* lines 32-39 and the loop head: the state before the first eval
calcStart(logic) ==
    LET ls == split(logic, ",")
        cs == [n \in 1..Len(ls) |-> parse(ls[n])]
        ps == premisesOf(cs)
    IN [logics |-> ls, codes |-> cs, premiseOrder |-> ps,
        premiseCartesian |->
            cartesianProduct([n \in 1..Len(ps) |-> <<"true", "false">>]),
        i |-> 0, k |-> 0, evalLog |-> <<>>, err |-> NoError]

\* line 9 of the page's first load: nothing was calculated
NoCalc ==
    [logics |-> <<>>, codes |-> <<>>, premiseOrder |-> <<>>,
     premiseCartesian |-> <<>>, i |-> 0, k |-> 0, evalLog |-> <<>>,
     err |-> NoError]

calcDone(st) == st.err.thrown \/ ~(st.i < Len(st.premiseCartesian))

(* The forEach callback with a catch that goes on: the failed cell is left *)
(* undefined and nothing is thrown.                                        *)
calcStepSwallows(st) ==
    LET row == st.premiseCartesian[st.i + 1]
        rowCode == rowCodesFor(st.codes, st.premiseOrder, row)[st.k + 1]
        o == eval(rowCode)
        last == st.k + 1 = Len(st.codes)
    IN [st EXCEPT !.premiseCartesian[st.i + 1] =
                      Append(@, IF o.name = "ok" THEN o.v ELSE "undefined"),
                  !.k = IF last THEN 0 ELSE st.k + 1,
                  !.i = IF last THEN st.i + 1 ELSE st.i,
                  !.evalLog = Append(@, rowCode)]

(* One call of the forEach callback (lines 52-61) on code literal k of     *)
(* row i: the eval, and either the push or the throw with err.rowCode.     *)
calcStep(st) ==
    LET row == st.premiseCartesian[st.i + 1]
        rowCode == rowCodesFor(st.codes, st.premiseOrder, row)[st.k + 1]
        o == eval(rowCode)
        last == st.k + 1 = Len(st.codes)
    IN IF o.name = "ok"
       THEN [st EXCEPT !.premiseCartesian[st.i + 1] = Append(@, o.v),
                       !.k = IF last THEN 0 ELSE st.k + 1,
                       !.i = IF last THEN st.i + 1 ELSE st.i,
                       !.evalLog = Append(@, rowCode)]
       ELSE [st EXCEPT !.evalLog = Append(@, rowCode),
                       !.err = [thrown |-> TRUE, rowCode |-> rowCode,
                                name |-> o.name]]

RECURSIVE calcRun(_)
calcRun(st) == IF calcDone(st) THEN st ELSE calcRun(calcStep(st))

\* line 64
tableOf(st) == <<st.premiseOrder \o st.logics>> \o st.premiseCartesian

NoTable == <<>>

\* the value calculateTruthTable returns; NoTable when it throws
calculateTruthTable(logic) ==
    LET st == calcRun(calcStart(logic))
    IN IF st.err.thrown THEN NoTable ELSE tableOf(st)

(***************************************************************************)
(* The inputs typed into the page                                          *)
(***************************************************************************)
\* statements made of literals and operators only, with their truth values
LiteralInputs ==
    { [text |-> <<"T"," ","a","n","d"," ","F">>, result |-> <<FALSE>>],
      [text |-> <<"T"," ","o","r"," ","F">>, result |-> <<TRUE>>],
      [text |-> <<"n","o","t"," ","F">>, result |-> <<TRUE>>] }

\* "p <-> q, not (p xor q)"
DualityInput == <<"p"," ","<","-",">"," ","q",","," ","n","o","t"," ","(","p"," ","x","o","r"," ","q",")">>

\* "p -> q -> r", "p then q then r"
ImplicationChains ==
    { <<"p"," ","-",">"," ","q"," ","-",">"," ","r">>,
      <<"p"," ","t","h","e","n"," ","q"," ","t","h","e","n"," ","r">> }

\* x op1 y op2 z without parentheses, with the canonical names of op1, op2
FlatInputs ==
    { [text |-> <<"p"," ","a","n","d"," ","q"," ","="," ","r">>,
       op1 |-> "and", op2 |-> "equals"],
      [text |-> <<"p"," ","o","r"," ","q"," ","x","o","r"," ","r">>,
       op1 |-> "or", op2 |-> "xor"],
      [text |-> <<"p"," ","o","r"," ","q"," ","a","n","d"," ","r">>,
       op1 |-> "or", op2 |-> "and"],
      [text |-> <<"p"," ","a","n","d"," ","q"," ","o","r"," ","r">>,
       op1 |-> "and", op2 |-> "or"],
      [text |-> <<"p"," ","="," ","q"," ","a","n","d"," ","r">>,
       op1 |-> "equals", op2 |-> "and"],
      [text |-> <<"p"," ","x","o","r"," ","q"," ","o","r"," ","r">>,
       op1 |-> "xor", op2 |-> "or"] }

\* "p and", "p or p1", "p, p or p1, q": an evaluation fails in row 0, 1, 2
FailingInputs ==
    { <<"p"," ","a","n","d">>,
      <<"p"," ","o","r"," ","p","1">>,
      <<"p",","," ","p"," ","o","r"," ","p","1",","," ","q">> }

\* "p1", "x0 or p", "p, p and T", "p and P"
PremiseInputs ==
    { <<"p","1">>,
      <<"x","0"," ","o","r"," ","p">>,
      <<"p",","," ","p"," ","a","n","d"," ","T">>,
      <<"p"," ","a","n","d"," ","P">> }

\* "p and q", "p -> q", "not p", "(p and q) or (not p and not q)"
ScenarioInputs ==
    { <<"p"," ","a","n","d"," ","q">>,
      <<"p"," ","-",">"," ","q">>,
      <<"n","o","t"," ","p">>,
      <<"(","p"," ","a","n","d"," ","q",")"," ","o","r"," ","(","n","o","t"," ","p"," ","a","n","d"," ","n","o","t"," ","q",")">> }

Inputs ==
    { x.text : x \in LiteralInputs } \cup {DualityInput} \cup ImplicationChains
    \cup { x.text : x \in FlatInputs } \cup FailingInputs \cup PremiseInputs
    \cup ScenarioInputs

(***************************************************************************)
(* onInputChange (lines 68-106), a call at a time: the page is             *)
(* single-threaded.  The elapsed time of line 99 is not modelled.          *)
(***************************************************************************)
NoCall == [some |-> FALSE, value |-> <<>>]
NoMessage == [value |-> <<>>, rowCode |-> <<>>, message |-> ""]

\* lines 93-95: the cell drawn for a value
cellText(v) == IF Truthy(v) THEN "T" ELSE "F"

\* the page after its first load
PageLoaded ==
    /\ pc = "idle"
    /\ value = <<>>
    /\ calc = NoCalc
    /\ truthTable = NoTable
    /\ currentTruthTable = NoTable
    /\ cacheWrites = 0
    /\ lastOk = NoCall
    /\ errorDisplay = "none"
    /\ errorHtml = NoMessage
    /\ thead = <<>>
    /\ tbody = <<>>

pageVars == <<pc, value, calc, truthTable, currentTruthTable, cacheWrites, lastOk,
              errorDisplay, errorHtml, thead, tbody>>

Init ==
    /\ PageLoaded
    /\ cp = cpStart(<<>>)
    /\ rp = rpStart(<<>>, "identity")

\* lines 69-74 and 29-42: the call, up to the first iteration of the row loop
OnInputChange(v) ==
    /\ pc = "idle"
    /\ pc' = "calculate"
    /\ value' = v
    /\ errorDisplay' = "none"
    /\ calc' = calcStart(v)
    /\ truthTable' = NoTable
    /\ cacheWrites' = 0
    /\ UNCHANGED <<currentTruthTable, lastOk, errorHtml, thead, tbody, cp, rp>>

\* lines 52-61: one eval; a throw leaves calculateTruthTable for the catch
EvalRowCode ==
    /\ pc = "calculate"
    /\ ~calcDone(calc)
    /\ calc' = calcStep(calc)
    /\ pc' = IF calc'.err.thrown THEN "catch" ELSE "calculate"
    /\ UNCHANGED <<value, truthTable, currentTruthTable, cacheWrites, lastOk,
                   errorDisplay, errorHtml, thead, tbody, cp, rp>>

\* lines 64 and 76-100: the table is returned, drawn and stored
OnInputRender ==
    /\ pc = "calculate"
    /\ calcDone(calc)
    /\ LET table == tableOf(calc)
       IN /\ truthTable' = table
          /\ thead' = [n \in 1..Len(table[1]) |-> prettyPrint(table[1][n])]
          /\ tbody' = [n \in 1..(Len(table) - 1) |->
                          [m \in 1..Len(table[n + 1]) |-> cellText(table[n + 1][m])]]
          /\ currentTruthTable' = table
    /\ cacheWrites' = cacheWrites + 1
    /\ lastOk' = [some |-> TRUE, value |-> value]
    /\ pc' = "idle"
    /\ UNCHANGED <<value, calc, errorDisplay, errorHtml, cp, rp>>

\* lines 101-105 with a catch that also forgets the stored table
OnInputCatchClearsTable ==
    /\ pc = "catch"
    /\ errorDisplay' = "block"
    /\ errorHtml' = [value |-> value, rowCode |-> calc.err.rowCode,
                     message |-> calc.err.name]
    /\ currentTruthTable' = NoTable
    /\ pc' = "idle"
    /\ UNCHANGED <<value, calc, truthTable, cacheWrites, lastOk, thead, tbody,
                   cp, rp>>

\* lines 101-105
OnInputCatch ==
    /\ pc = "catch"
    /\ errorDisplay' = "block"
    /\ errorHtml' = [value |-> value, rowCode |-> calc.err.rowCode,
                     message |-> calc.err.name]
    /\ pc' = "idle"
    /\ UNCHANGED <<value, calc, truthTable, currentTruthTable, cacheWrites, lastOk,
                   thead, tbody, cp, rp>>

Next ==
    \/ \E v \in Inputs : OnInputChange(v)
    \/ EvalRowCode
    \/ OnInputRender
    \/ OnInputCatch

Spec == Init /\ [][Next]_vars

\* the last call is over: it threw, or it stored its table
Completed ==
    pc = "idle" /\ (calc.err.thrown \/ (lastOk.some /\ lastOk.value = value))

\* no run hands eval a text outside the modelled fragment
EvalModelled == calc.err.name # "Unmodelled"

(***************************************************************************)
(* cartesianProduct on its own, an execution of the loop body at a time,   *)
(* on the arguments line 39 passes: N copies of [true, false].             *)
(***************************************************************************)
MaxN == 5

booleanMatrices(n) == [m \in 1..n |-> <<"true", "false">>]

InitCartesian ==
    /\ PageLoaded
    /\ cp \in { cpStart(booleanMatrices(n)) : n \in 0..MaxN }
    /\ rp = rpStart(<<>>, "identity")

CartesianProductStep ==
    /\ ~cpDone(cp)
    /\ cp' = cpStep(cp)
    /\ UNCHANGED <<pageVars, rp>>

SpecCartesian == InitCartesian /\ [][CartesianProductStep]_vars

(***************************************************************************)
(* replaceParanthesis on its own, an iteration at a time, on every string  *)
(* of balanced parentheses up to a length and with each callback.          *)
(***************************************************************************)
MaxParenLen == 6

ParenAlphabet == {"(", ")", "T", " "}
ParenCallbacks == {"parse", "identity", "empty", "double"}

\* the depth after the first n characters of s
RECURSIVE depthAfter(_, _)
depthAfter(s, n) ==
    IF n = 0 THEN 0
    ELSE depthAfter(s, n - 1)
         + (IF s[n] = "(" THEN 1 ELSE IF s[n] = ")" THEN -1 ELSE 0)

Balanced(s) ==
    /\ depthAfter(s, Len(s)) = 0
    /\ \A n \in 1..Len(s) : depthAfter(s, n) >= 0

ParenStrings ==
    { s \in UNION { [1..n -> ParenAlphabet] : n \in 0..MaxParenLen } : Balanced(s) }

InitParen ==
    /\ PageLoaded
    /\ cp = cpStart(<<>>)
    /\ rp \in { rpStart(s, cb) : s \in ParenStrings, cb \in ParenCallbacks }

ReplaceParanthesisStep ==
    /\ ~rpDone(rp)
    /\ rp' = rpStep(rp)
    /\ UNCHANGED <<pageVars, cp>>

SpecParen == InitParen /\ [][ReplaceParanthesisStep]_vars

(***************************************************************************)
(* Properties                                                              *)
(***************************************************************************)
Failed == calc.err.thrown
Rows(table) == 2..Len(table)

\* the cell of row n in the column whose header is name
ValueOf(table, n, name) ==
    table[n][CHOOSE m \in 1..Len(table[1]) : table[1][m] = name]

(* C1: a statement made of literals and operators only (no free variable)  *)
(* gets a table with exactly one body row, which holds the constant truth  *)
(* value of the statement ("T and F": false).                              *)
C1_LiteralStatementHasOneRow ==
    \A x \in LiteralInputs :
        Completed /\ value = x.text =>
            /\ ~Failed
            /\ Len(truthTable) = 2
            /\ \A k \in 1..Len(x.result) :
                  Truthy(truthTable[2][k]) = x.result[k]

RECURSIVE pow2(_)
pow2(n) == IF n = 0 THEN 1 ELSE 2 * pow2(n - 1)

(* C2: for N >= 1 copies of [true, false] cartesianProduct returns 2^N     *)
(* rows of length N, all different, every assignment once, and the value   *)
(* of variable i in row x is true iff floor(x / 2^(N-i-1)) mod 2 = 0.      *)
C2_CartesianOrder ==
    cpDone(cp) /\ Len(cp.matrices) >= 1 =>
        LET N == Len(cp.matrices)
            c == cp.cartesian
        IN /\ Len(c) = pow2(N)
           /\ \A x \in 0..(Len(c) - 1) :
                 /\ Len(c[x + 1]) = N
                 /\ \A i \in 0..(N - 1) :
                       /\ c[x + 1][i + 1] \in {"true", "false"}
                       /\ (c[x + 1][i + 1] = "true")
                              = ((x \div pow2(N - i - 1)) % 2 = 0)
           /\ \A x, y \in 1..Len(c) : c[x] = c[y] => x = y
           /\ Range(c) = [1..N -> {"true", "false"}]

\* cartesianProduct has returned the four rows of two variables
C2_Witness ==
    /\ cpDone(cp)
    /\ cp.cartesian = << <<"true", "true">>, <<"true", "false">>,
                         <<"false", "true">>, <<"false", "false">> >>

(* C3: "p <-> q" and "not (p xor q)" have the same result column for the   *)
(* four assignments of p and q, and the exclusive-or written inside the    *)
(* parentheses is still an exclusive-or (^) in the compiled expression.    *)
C3_BiconditionalXorDuality ==
    Completed /\ value = DualityInput =>
        /\ ~Failed
        /\ "^" \in Range(calc.codes[2])
        /\ Len(truthTable) = 5
        /\ \A n \in Rows(truthTable) :
              Truthy(truthTable[n][3]) = Truthy(truthTable[n][4])

(* C4: a statement without parentheses and with two implication markers    *)
(* compiles to an expression without any implication marker, whose result  *)
(* column is that of p -> (q -> r).                                        *)
C4_ImplicationChainRightAssociates ==
    \A v \in ImplicationChains :
        Completed /\ value = v =>
            /\ ~Failed
            /\ \A pos \in 1..Len(calc.codes[1]) : ThenMarkerLen(calc.codes[1], pos) = 0
            /\ \A n \in Rows(truthTable) :
                  LET P == Truthy(ValueOf(truthTable, n, <<"p">>))
                      Q == Truthy(ValueOf(truthTable, n, <<"q">>))
                      R == Truthy(ValueOf(truthTable, n, <<"r">>))
                      cell == truthTable[n][Len(truthTable[n])]
                  IN Truthy(cell) = (P => (Q => R))

\* the connectives by their truth tables
truthOf(op, a, b) ==
    CASE op = "and"    -> a /\ b
      [] op = "or"     -> a \/ b
      [] op = "equals" -> a = b
      [] op = "xor"    -> a # b

\* the stated precedence: && over || over == and ^
statedLevel(op) == CASE op = "and" -> 2 [] op = "or" -> 1 [] OTHER -> 0

\* x op1 y op2 z read with the stated precedence, left to right within a level
statedValue(op1, op2, x, y, z) ==
    IF statedLevel(op1) >= statedLevel(op2)
    THEN truthOf(op2, truthOf(op1, x, y), z)
    ELSE truthOf(op1, x, truthOf(op2, y, z))

(* C5: the value of a substituted expression is the one given by the       *)
(* precedence ! over && over || over == and ^ (lowest), left to right      *)
(* within a level: "p and q = r" is (p && q) == r, "p or q xor r" is       *)
(* (p || q) ^ r, for every assignment.                                     *)
C5_StatedPrecedence ==
    \A x \in FlatInputs :
        Completed /\ value = x.text =>
            /\ ~Failed
            /\ \A n \in Rows(truthTable) :
                  Truthy(truthTable[n][4])
                      = statedValue(x.op1, x.op2, Truthy(truthTable[n][1]),
                                    Truthy(truthTable[n][2]), Truthy(truthTable[n][3]))

\* the texts a call hands to eval when none fails, row by row: the f-th one
textAt(st, f) ==
    LET M == Len(st.codes)
    IN rowCodesFor(st.codes, st.premiseOrder,
                   st.premiseCartesian[((f - 1) \div M) + 1])[((f - 1) % M) + 1]

(* C6: a call fails iff some evaluation fails; it then fails at the first  *)
(* failing evaluation in row order, then statement order: err.rowCode is   *)
(* the substituted text of exactly that expression, the evaluations made   *)
(* are those up to it and no later one, and no table is returned.          *)
C6_FailsAtFirstFailingEvaluation ==
    (pc = "catch" \/ Completed) =>
        LET st == calcStart(value)
            total == Len(st.premiseCartesian) * Len(st.codes)
            failing == { f \in 1..total : eval(textAt(st, f)).name # "ok" }
        IN /\ Failed = (failing # {})
           /\ Failed =>
                LET first == CHOOSE f \in failing : \A g \in failing : f <= g
                IN /\ calc.err.rowCode = textAt(st, first)
                   /\ calc.evalLog = [g \in 1..first |-> textAt(st, g)]
                   /\ truthTable = NoTable

\* a call has failed in its third row, after two complete rows
C6_Witness ==
    Completed /\ Failed /\ calc.i = 2 /\ calc.k = 1 /\ Len(calc.evalLog) = 8

(* C7: between calls, currentTruthTable is null while no call has          *)
(* succeeded, and else the complete table of the latest input whose        *)
(* calculation succeeded; a call that succeeds writes it once, a call that *)
(* fails does not write it.                                                *)
C7_CacheIsLatestSuccessfulTable ==
    /\ pc = "idle" =>
          currentTruthTable =
              IF lastOk.some THEN calculateTruthTable(lastOk.value) ELSE NoTable
    /\ lastOk.some => currentTruthTable # NoTable
    /\ Completed => cacheWrites = IF Failed THEN 0 ELSE 1

\* a call has failed after one that succeeded with another input
C7_Witness ==
    /\ Completed /\ Failed /\ lastOk.some /\ lastOk.value # value
    /\ Len(currentTruthTable) > 1

\* the outermost group of a balanced s opened at position a closes here
closeOf(s, a) ==
    CHOOSE b \in (a + 1)..Len(s) :
        /\ depthAfter(s, b) = depthAfter(s, a) - 1
        /\ \A n \in a..(b - 1) : depthAfter(s, n) >= depthAfter(s, a)

\* s with the interior of each outermost group replaced by the callback's result
RECURSIVE rewrittenGroups(_, _)
rewrittenGroups(s, cb) ==
    IF "(" \notin Range(s) THEN s
    ELSE LET a == CHOOSE n \in 1..Len(s) :
                      s[n] = "(" /\ \A m \in 1..(n - 1) : s[m] # "("
             b == closeOf(s, a)
         IN SubSeq(s, 1, a) \o callback(cb, SubSeq(s, a + 1, b - 1)) \o <<")">>
            \o rewrittenGroups(SubSeq(s, b + 1, Len(s)), cb)

(* C8: for a string of balanced parentheses and any callback,              *)
(* replaceParanthesis returns the input with the interior of each          *)
(* outermost group replaced by callback(interior) and the rest unchanged,  *)
(* and the depth counter is never negative, however close two groups are.  *)
C8_EveryOutermostGroupRewritten ==
    rpDone(rp) =>
        /\ rp.string = rewrittenGroups(rp.input, rp.cb)
        /\ rp.minControl >= 0

\* the maximal runs of word characters of s, from pos
RECURSIVE wordRuns(_, _)
wordRuns(s, pos) ==
    IF pos > Len(s) THEN <<>>
    ELSE IF s[pos] \in WordChars
    THEN LET e == wordEnd(s, pos)
         IN <<SubSeq(s, pos, e)>> \o wordRuns(s, e + 1)
    ELSE wordRuns(s, pos + 1)

RECURSIVE without(_, _)
without(ss, drop) ==
    IF ss = <<>> THEN <<>>
    ELSE (IF Head(ss) \in drop THEN <<>> ELSE <<Head(ss)>>) \o without(Tail(ss), drop)

(* C9: the variable list is the list of distinct maximal runs of word      *)
(* characters of the comma-joined compiled expressions, but the runs made  *)
(* only of the digits 0 and 1, in order of first appearance: "p1" is one   *)
(* variable.                                                               *)
C9_VariablesAreWholeWords ==
    LET runs == wordRuns(join(calc.codes, <<",">>), 1)
        binary == { w \in Range(runs) : \A n \in 1..Len(w) : w[n] \in {"0", "1"} }
    IN calc.premiseOrder = dedupe(without(runs, binary))

\* every whole word of s that is a header variable replaced by its own value
RECURSIVE bindAll(_, _, _, _)
bindAll(s, pos, premises, row) ==
    IF pos > Len(s) THEN <<>>
    ELSE IF s[pos] \in WordChars
    THEN LET e == wordEnd(s, pos)
             w == SubSeq(s, pos, e)
         IN (IF w \in Range(premises)
             THEN valueText(row[CHOOSE j \in 1..Len(premises) : premises[j] = w])
             ELSE w) \o bindAll(s, e + 1, premises, row)
    ELSE <<s[pos]>> \o bindAll(s, pos + 1, premises, row)

(* C10: each result cell is the compiled expression evaluated with every   *)
(* header variable bound to the value of its own column in that row, also  *)
(* for header variables that differ only in letter case.                   *)
C10_CellsUseOwnColumn ==
    Completed /\ ~Failed =>
        \A n \in Rows(truthTable) : \A k \in 1..Len(calc.codes) :
            eval(bindAll(calc.codes[k], 1, calc.premiseOrder, truthTable[n]))
                = Outcome("ok", truthTable[n][Len(calc.premiseOrder) + k])

====
